---- MODULE Spec2Model ----
(***************************************************************************)
(* Model of src-tauri/check_versions_temp.py: the function v(p, i) that    *)
(* resolves one package version (pip show, then __import__, then the       *)
(* sentinel) and the module body that evaluates the four lookups in order  *)
(* and prints json.dumps of the mapping.                                   *)
(*                                                                         *)
(* Python strings are sequences of Unicode code points, so that            *)
(* splitlines, lower, startswith, split and strip are computed and not     *)
(* assumed.                                                                *)
(***************************************************************************)
EXTENDS Integers, Sequences, FiniteSets, TLC

\* Largest number of lines in a modelled pip output.
MaxLines == 2

---------------------------------------------------------------------------
(* Python values that reach the mapping *)

PyStr(cs) == [kind |-> "str", chars |-> cs, items |-> <<>>]
PyTuple(ns) == [kind |-> "tuple", chars |-> <<>>, items |-> ns]
PyNone == [kind |-> "None", chars |-> <<>>, items |-> <<>>]
\* an instance of a class json cannot encode; chars is its str() form
PyObject(cs) == [kind |-> "object", chars |-> cs, items |-> <<>>]

---------------------------------------------------------------------------
(* characters are Unicode code points; a Python str is a sequence of them *)

\* the ASCII characters from code point 32 to 95 and from 97 to 126, the
\* printable ones but for the grave accent
AsciiFrom32 ==
  <<" ","!","\"","#","$","%","&","'","(",")","*","+",",","-",".","/","0","1","2","3","4","5","6","7","8","9",":",";","<","=",">","?",
    "@","A","B","C","D","E","F","G","H","I","J","K","L","M","N","O","P","Q","R","S","T","U","V","W","X","Y","Z","[","\\","]","^","_">>
AsciiFrom97 ==
  <<"a","b","c","d","e","f","g","h","i","j","k","l","m","n","o","p","q","r","s","t","u","v","w","x","y","z","{","|","}","~">>

\* ord(c) of one of these characters
ord(c) ==
  IF \E n \in DOMAIN AsciiFrom32 : AsciiFrom32[n] = c
  THEN 31 + CHOOSE n \in DOMAIN AsciiFrom32 : AsciiFrom32[n] = c
  ELSE 96 + CHOOSE n \in DOMAIN AsciiFrom97 : AsciiFrom97[n] = c

\* the str written as the tuple cs of such characters
Text(cs) == [n \in 1..Len(cs) |-> ord(cs[n])]

---------------------------------------------------------------------------
(* str methods used by v, with the character tables of CPython 3.11       *)
(* (Unicode 14.0)                                                          *)

\* simple lowercase mappings beyond ASCII: <<first, last, step, delta>> maps
\* every step-th code point c of first..last to c + delta
LowerRuns ==
  {<<192, 214, 1, 32>>, <<216, 222, 1, 32>>, <<256, 302, 2, 1>>,
   <<306, 310, 2, 1>>, <<313, 327, 2, 1>>, <<330, 374, 2, 1>>, <<376, 376, 1, -121>>,
   <<377, 381, 2, 1>>, <<385, 385, 1, 210>>, <<386, 388, 2, 1>>, <<390, 390, 1, 206>>,
   <<391, 391, 1, 1>>, <<393, 394, 1, 205>>, <<395, 395, 1, 1>>, <<398, 398, 1, 79>>,
   <<399, 399, 1, 202>>, <<400, 400, 1, 203>>, <<401, 401, 1, 1>>, <<403, 403, 1, 205>>,
   <<404, 404, 1, 207>>, <<406, 406, 1, 211>>, <<407, 407, 1, 209>>, <<408, 408, 1, 1>>,
   <<412, 412, 1, 211>>, <<413, 413, 1, 213>>, <<415, 415, 1, 214>>, <<416, 420, 2, 1>>,
   <<422, 422, 1, 218>>, <<423, 423, 1, 1>>, <<425, 425, 1, 218>>, <<428, 428, 1, 1>>,
   <<430, 430, 1, 218>>, <<431, 431, 1, 1>>, <<433, 434, 1, 217>>, <<435, 437, 2, 1>>,
   <<439, 439, 1, 219>>, <<440, 440, 1, 1>>, <<444, 444, 1, 1>>, <<452, 452, 1, 2>>,
   <<453, 453, 1, 1>>, <<455, 455, 1, 2>>, <<456, 456, 1, 1>>, <<458, 458, 1, 2>>,
   <<459, 475, 2, 1>>, <<478, 494, 2, 1>>, <<497, 497, 1, 2>>, <<498, 500, 2, 1>>,
   <<502, 502, 1, -97>>, <<503, 503, 1, -56>>, <<504, 542, 2, 1>>, <<544, 544, 1, -130>>,
   <<546, 562, 2, 1>>, <<570, 570, 1, 10795>>, <<571, 571, 1, 1>>, <<573, 573, 1, -163>>,
   <<574, 574, 1, 10792>>, <<577, 577, 1, 1>>, <<579, 579, 1, -195>>, <<580, 580, 1, 69>>,
   <<581, 581, 1, 71>>, <<582, 590, 2, 1>>, <<880, 882, 2, 1>>, <<886, 886, 1, 1>>,
   <<895, 895, 1, 116>>, <<902, 902, 1, 38>>, <<904, 906, 1, 37>>, <<908, 908, 1, 64>>,
   <<910, 911, 1, 63>>, <<913, 929, 1, 32>>, <<932, 939, 1, 32>>, <<975, 975, 1, 8>>,
   <<984, 1006, 2, 1>>, <<1012, 1012, 1, -60>>, <<1015, 1015, 1, 1>>, <<1017, 1017, 1, -7>>,
   <<1018, 1018, 1, 1>>, <<1021, 1023, 1, -130>>, <<1024, 1039, 1, 80>>, <<1040, 1071, 1, 32>>,
   <<1120, 1152, 2, 1>>, <<1162, 1214, 2, 1>>, <<1216, 1216, 1, 15>>, <<1217, 1229, 2, 1>>,
   <<1232, 1326, 2, 1>>, <<1329, 1366, 1, 48>>, <<4256, 4293, 1, 7264>>, <<4295, 4295, 1, 7264>>,
   <<4301, 4301, 1, 7264>>, <<5024, 5103, 1, 38864>>, <<5104, 5109, 1, 8>>, <<7312, 7354, 1, -3008>>,
   <<7357, 7359, 1, -3008>>, <<7680, 7828, 2, 1>>, <<7838, 7838, 1, -7615>>, <<7840, 7934, 2, 1>>,
   <<7944, 7951, 1, -8>>, <<7960, 7965, 1, -8>>, <<7976, 7983, 1, -8>>, <<7992, 7999, 1, -8>>,
   <<8008, 8013, 1, -8>>, <<8025, 8031, 2, -8>>, <<8040, 8047, 1, -8>>, <<8072, 8079, 1, -8>>,
   <<8088, 8095, 1, -8>>, <<8104, 8111, 1, -8>>, <<8120, 8121, 1, -8>>, <<8122, 8123, 1, -74>>,
   <<8124, 8124, 1, -9>>, <<8136, 8139, 1, -86>>, <<8140, 8140, 1, -9>>, <<8152, 8153, 1, -8>>,
   <<8154, 8155, 1, -100>>, <<8168, 8169, 1, -8>>, <<8170, 8171, 1, -112>>, <<8172, 8172, 1, -7>>,
   <<8184, 8185, 1, -128>>, <<8186, 8187, 1, -126>>, <<8188, 8188, 1, -9>>, <<8486, 8486, 1, -7517>>,
   <<8490, 8490, 1, -8383>>, <<8491, 8491, 1, -8262>>, <<8498, 8498, 1, 28>>, <<8544, 8559, 1, 16>>,
   <<8579, 8579, 1, 1>>, <<9398, 9423, 1, 26>>, <<11264, 11311, 1, 48>>, <<11360, 11360, 1, 1>>,
   <<11362, 11362, 1, -10743>>, <<11363, 11363, 1, -3814>>, <<11364, 11364, 1, -10727>>, <<11367, 11371, 2, 1>>,
   <<11373, 11373, 1, -10780>>, <<11374, 11374, 1, -10749>>, <<11375, 11375, 1, -10783>>, <<11376, 11376, 1, -10782>>,
   <<11378, 11378, 1, 1>>, <<11381, 11381, 1, 1>>, <<11390, 11391, 1, -10815>>, <<11392, 11490, 2, 1>>,
   <<11499, 11501, 2, 1>>, <<11506, 11506, 1, 1>>, <<42560, 42604, 2, 1>>, <<42624, 42650, 2, 1>>,
   <<42786, 42798, 2, 1>>, <<42802, 42862, 2, 1>>, <<42873, 42875, 2, 1>>, <<42877, 42877, 1, -35332>>,
   <<42878, 42886, 2, 1>>, <<42891, 42891, 1, 1>>, <<42893, 42893, 1, -42280>>, <<42896, 42898, 2, 1>>,
   <<42902, 42920, 2, 1>>, <<42922, 42922, 1, -42308>>, <<42923, 42923, 1, -42319>>, <<42924, 42924, 1, -42315>>,
   <<42925, 42925, 1, -42305>>, <<42926, 42926, 1, -42308>>, <<42928, 42928, 1, -42258>>, <<42929, 42929, 1, -42282>>,
   <<42930, 42930, 1, -42261>>, <<42931, 42931, 1, 928>>, <<42932, 42946, 2, 1>>, <<42948, 42948, 1, -48>>,
   <<42949, 42949, 1, -42307>>, <<42950, 42950, 1, -35384>>, <<42951, 42953, 2, 1>>, <<42960, 42960, 1, 1>>,
   <<42966, 42968, 2, 1>>, <<42997, 42997, 1, 1>>, <<65313, 65338, 1, 32>>, <<66560, 66599, 1, 40>>,
   <<66736, 66771, 1, 40>>, <<66928, 66938, 1, 39>>, <<66940, 66954, 1, 39>>, <<66956, 66962, 1, 39>>,
   <<66964, 66965, 1, 39>>, <<68736, 68786, 1, 64>>, <<71840, 71871, 1, 32>>, <<93760, 93791, 1, 32>>,
   <<125184, 125217, 1, 34>>}

\* code points that are cased and not case-ignorable
CasedRuns ==
  {<<65, 90>>, <<97, 122>>, <<170, 170>>, <<181, 181>>, <<186, 186>>, <<192, 214>>,
   <<216, 246>>, <<248, 442>>, <<444, 447>>, <<452, 659>>, <<661, 687>>, <<880, 883>>,
   <<886, 887>>, <<891, 893>>, <<895, 895>>, <<902, 902>>, <<904, 906>>, <<908, 908>>,
   <<910, 929>>, <<931, 1013>>, <<1015, 1153>>, <<1162, 1327>>, <<1329, 1366>>, <<1376, 1416>>,
   <<4256, 4293>>, <<4295, 4295>>, <<4301, 4301>>, <<4304, 4346>>, <<4349, 4351>>, <<5024, 5109>>,
   <<5112, 5117>>, <<7296, 7304>>, <<7312, 7354>>, <<7357, 7359>>, <<7424, 7467>>, <<7531, 7543>>,
   <<7545, 7578>>, <<7680, 7957>>, <<7960, 7965>>, <<7968, 8005>>, <<8008, 8013>>, <<8016, 8023>>,
   <<8025, 8025>>, <<8027, 8027>>, <<8029, 8029>>, <<8031, 8061>>, <<8064, 8116>>, <<8118, 8124>>,
   <<8126, 8126>>, <<8130, 8132>>, <<8134, 8140>>, <<8144, 8147>>, <<8150, 8155>>, <<8160, 8172>>,
   <<8178, 8180>>, <<8182, 8188>>, <<8450, 8450>>, <<8455, 8455>>, <<8458, 8467>>, <<8469, 8469>>,
   <<8473, 8477>>, <<8484, 8484>>, <<8486, 8486>>, <<8488, 8488>>, <<8490, 8493>>, <<8495, 8500>>,
   <<8505, 8505>>, <<8508, 8511>>, <<8517, 8521>>, <<8526, 8526>>, <<8544, 8575>>, <<8579, 8580>>,
   <<9398, 9449>>, <<11264, 11387>>, <<11390, 11492>>, <<11499, 11502>>, <<11506, 11507>>, <<11520, 11557>>,
   <<11559, 11559>>, <<11565, 11565>>, <<42560, 42605>>, <<42624, 42651>>, <<42786, 42863>>, <<42865, 42887>>,
   <<42891, 42894>>, <<42896, 42954>>, <<42960, 42961>>, <<42963, 42963>>, <<42965, 42969>>, <<42997, 42998>>,
   <<43002, 43002>>, <<43824, 43866>>, <<43872, 43880>>, <<43888, 43967>>, <<64256, 64262>>, <<64275, 64279>>,
   <<65313, 65338>>, <<65345, 65370>>, <<66560, 66639>>, <<66736, 66771>>, <<66776, 66811>>, <<66928, 66938>>,
   <<66940, 66954>>, <<66956, 66962>>, <<66964, 66965>>, <<66967, 66977>>, <<66979, 66993>>, <<66995, 67001>>,
   <<67003, 67004>>, <<68736, 68786>>, <<68800, 68850>>, <<71840, 71903>>, <<93760, 93823>>, <<119808, 119892>>,
   <<119894, 119964>>, <<119966, 119967>>, <<119970, 119970>>, <<119973, 119974>>, <<119977, 119980>>, <<119982, 119993>>,
   <<119995, 119995>>, <<119997, 120003>>, <<120005, 120069>>, <<120071, 120074>>, <<120077, 120084>>, <<120086, 120092>>,
   <<120094, 120121>>, <<120123, 120126>>, <<120128, 120132>>, <<120134, 120134>>, <<120138, 120144>>, <<120146, 120485>>,
   <<120488, 120512>>, <<120514, 120538>>, <<120540, 120570>>, <<120572, 120596>>, <<120598, 120628>>, <<120630, 120654>>,
   <<120656, 120686>>, <<120688, 120712>>, <<120714, 120744>>, <<120746, 120770>>, <<120772, 120779>>, <<122624, 122633>>,
   <<122635, 122654>>, <<125184, 125251>>, <<127280, 127305>>, <<127312, 127337>>, <<127344, 127369>>}

\* code points that are case-ignorable
CaseIgnorableRuns ==
  {<<39, 39>>, <<46, 46>>, <<58, 58>>, <<94, 94>>, <<96, 96>>, <<168, 168>>,
   <<173, 173>>, <<175, 175>>, <<180, 180>>, <<183, 184>>, <<688, 879>>, <<884, 885>>,
   <<890, 890>>, <<900, 901>>, <<903, 903>>, <<1155, 1161>>, <<1369, 1369>>, <<1375, 1375>>,
   <<1425, 1469>>, <<1471, 1471>>, <<1473, 1474>>, <<1476, 1477>>, <<1479, 1479>>, <<1524, 1524>>,
   <<1536, 1541>>, <<1552, 1562>>, <<1564, 1564>>, <<1600, 1600>>, <<1611, 1631>>, <<1648, 1648>>,
   <<1750, 1757>>, <<1759, 1768>>, <<1770, 1773>>, <<1807, 1807>>, <<1809, 1809>>, <<1840, 1866>>,
   <<1958, 1968>>, <<2027, 2037>>, <<2042, 2042>>, <<2045, 2045>>, <<2070, 2093>>, <<2137, 2139>>,
   <<2184, 2184>>, <<2192, 2193>>, <<2200, 2207>>, <<2249, 2306>>, <<2362, 2362>>, <<2364, 2364>>,
   <<2369, 2376>>, <<2381, 2381>>, <<2385, 2391>>, <<2402, 2403>>, <<2417, 2417>>, <<2433, 2433>>,
   <<2492, 2492>>, <<2497, 2500>>, <<2509, 2509>>, <<2530, 2531>>, <<2558, 2558>>, <<2561, 2562>>,
   <<2620, 2620>>, <<2625, 2626>>, <<2631, 2632>>, <<2635, 2637>>, <<2641, 2641>>, <<2672, 2673>>,
   <<2677, 2677>>, <<2689, 2690>>, <<2748, 2748>>, <<2753, 2757>>, <<2759, 2760>>, <<2765, 2765>>,
   <<2786, 2787>>, <<2810, 2815>>, <<2817, 2817>>, <<2876, 2876>>, <<2879, 2879>>, <<2881, 2884>>,
   <<2893, 2893>>, <<2901, 2902>>, <<2914, 2915>>, <<2946, 2946>>, <<3008, 3008>>, <<3021, 3021>>,
   <<3072, 3072>>, <<3076, 3076>>, <<3132, 3132>>, <<3134, 3136>>, <<3142, 3144>>, <<3146, 3149>>,
   <<3157, 3158>>, <<3170, 3171>>, <<3201, 3201>>, <<3260, 3260>>, <<3263, 3263>>, <<3270, 3270>>,
   <<3276, 3277>>, <<3298, 3299>>, <<3328, 3329>>, <<3387, 3388>>, <<3393, 3396>>, <<3405, 3405>>,
   <<3426, 3427>>, <<3457, 3457>>, <<3530, 3530>>, <<3538, 3540>>, <<3542, 3542>>, <<3633, 3633>>,
   <<3636, 3642>>, <<3654, 3662>>, <<3761, 3761>>, <<3764, 3772>>, <<3782, 3782>>, <<3784, 3789>>,
   <<3864, 3865>>, <<3893, 3893>>, <<3895, 3895>>, <<3897, 3897>>, <<3953, 3966>>, <<3968, 3972>>,
   <<3974, 3975>>, <<3981, 3991>>, <<3993, 4028>>, <<4038, 4038>>, <<4141, 4144>>, <<4146, 4151>>,
   <<4153, 4154>>, <<4157, 4158>>, <<4184, 4185>>, <<4190, 4192>>, <<4209, 4212>>, <<4226, 4226>>,
   <<4229, 4230>>, <<4237, 4237>>, <<4253, 4253>>, <<4348, 4348>>, <<4957, 4959>>, <<5906, 5908>>,
   <<5938, 5939>>, <<5970, 5971>>, <<6002, 6003>>, <<6068, 6069>>, <<6071, 6077>>, <<6086, 6086>>,
   <<6089, 6099>>, <<6103, 6103>>, <<6109, 6109>>, <<6155, 6159>>, <<6211, 6211>>, <<6277, 6278>>,
   <<6313, 6313>>, <<6432, 6434>>, <<6439, 6440>>, <<6450, 6450>>, <<6457, 6459>>, <<6679, 6680>>,
   <<6683, 6683>>, <<6742, 6742>>, <<6744, 6750>>, <<6752, 6752>>, <<6754, 6754>>, <<6757, 6764>>,
   <<6771, 6780>>, <<6783, 6783>>, <<6823, 6823>>, <<6832, 6862>>, <<6912, 6915>>, <<6964, 6964>>,
   <<6966, 6970>>, <<6972, 6972>>, <<6978, 6978>>, <<7019, 7027>>, <<7040, 7041>>, <<7074, 7077>>,
   <<7080, 7081>>, <<7083, 7085>>, <<7142, 7142>>, <<7144, 7145>>, <<7149, 7149>>, <<7151, 7153>>,
   <<7212, 7219>>, <<7222, 7223>>, <<7288, 7293>>, <<7376, 7378>>, <<7380, 7392>>, <<7394, 7400>>,
   <<7405, 7405>>, <<7412, 7412>>, <<7416, 7417>>, <<7468, 7530>>, <<7544, 7544>>, <<7579, 7679>>,
   <<8125, 8125>>, <<8127, 8129>>, <<8141, 8143>>, <<8157, 8159>>, <<8173, 8175>>, <<8189, 8190>>,
   <<8203, 8207>>, <<8216, 8217>>, <<8228, 8228>>, <<8231, 8231>>, <<8234, 8238>>, <<8288, 8292>>,
   <<8294, 8303>>, <<8305, 8305>>, <<8319, 8319>>, <<8336, 8348>>, <<8400, 8432>>, <<11388, 11389>>,
   <<11503, 11505>>, <<11631, 11631>>, <<11647, 11647>>, <<11744, 11775>>, <<11823, 11823>>, <<12293, 12293>>,
   <<12330, 12333>>, <<12337, 12341>>, <<12347, 12347>>, <<12441, 12446>>, <<12540, 12542>>, <<40981, 40981>>,
   <<42232, 42237>>, <<42508, 42508>>, <<42607, 42610>>, <<42612, 42621>>, <<42623, 42623>>, <<42652, 42655>>,
   <<42736, 42737>>, <<42752, 42785>>, <<42864, 42864>>, <<42888, 42890>>, <<42994, 42996>>, <<43000, 43001>>,
   <<43010, 43010>>, <<43014, 43014>>, <<43019, 43019>>, <<43045, 43046>>, <<43052, 43052>>, <<43204, 43205>>,
   <<43232, 43249>>, <<43263, 43263>>, <<43302, 43309>>, <<43335, 43345>>, <<43392, 43394>>, <<43443, 43443>>,
   <<43446, 43449>>, <<43452, 43453>>, <<43471, 43471>>, <<43493, 43494>>, <<43561, 43566>>, <<43569, 43570>>,
   <<43573, 43574>>, <<43587, 43587>>, <<43596, 43596>>, <<43632, 43632>>, <<43644, 43644>>, <<43696, 43696>>,
   <<43698, 43700>>, <<43703, 43704>>, <<43710, 43711>>, <<43713, 43713>>, <<43741, 43741>>, <<43756, 43757>>,
   <<43763, 43764>>, <<43766, 43766>>, <<43867, 43871>>, <<43881, 43883>>, <<44005, 44005>>, <<44008, 44008>>,
   <<44013, 44013>>, <<64286, 64286>>, <<64434, 64450>>, <<65024, 65039>>, <<65043, 65043>>, <<65056, 65071>>,
   <<65106, 65106>>, <<65109, 65109>>, <<65279, 65279>>, <<65287, 65287>>, <<65294, 65294>>, <<65306, 65306>>,
   <<65342, 65342>>, <<65344, 65344>>, <<65392, 65392>>, <<65438, 65439>>, <<65507, 65507>>, <<65529, 65531>>,
   <<66045, 66045>>, <<66272, 66272>>, <<66422, 66426>>, <<67456, 67461>>, <<67463, 67504>>, <<67506, 67514>>,
   <<68097, 68099>>, <<68101, 68102>>, <<68108, 68111>>, <<68152, 68154>>, <<68159, 68159>>, <<68325, 68326>>,
   <<68900, 68903>>, <<69291, 69292>>, <<69446, 69456>>, <<69506, 69509>>, <<69633, 69633>>, <<69688, 69702>>,
   <<69744, 69744>>, <<69747, 69748>>, <<69759, 69761>>, <<69811, 69814>>, <<69817, 69818>>, <<69821, 69821>>,
   <<69826, 69826>>, <<69837, 69837>>, <<69888, 69890>>, <<69927, 69931>>, <<69933, 69940>>, <<70003, 70003>>,
   <<70016, 70017>>, <<70070, 70078>>, <<70089, 70092>>, <<70095, 70095>>, <<70191, 70193>>, <<70196, 70196>>,
   <<70198, 70199>>, <<70206, 70206>>, <<70367, 70367>>, <<70371, 70378>>, <<70400, 70401>>, <<70459, 70460>>,
   <<70464, 70464>>, <<70502, 70508>>, <<70512, 70516>>, <<70712, 70719>>, <<70722, 70724>>, <<70726, 70726>>,
   <<70750, 70750>>, <<70835, 70840>>, <<70842, 70842>>, <<70847, 70848>>, <<70850, 70851>>, <<71090, 71093>>,
   <<71100, 71101>>, <<71103, 71104>>, <<71132, 71133>>, <<71219, 71226>>, <<71229, 71229>>, <<71231, 71232>>,
   <<71339, 71339>>, <<71341, 71341>>, <<71344, 71349>>, <<71351, 71351>>, <<71453, 71455>>, <<71458, 71461>>,
   <<71463, 71467>>, <<71727, 71735>>, <<71737, 71738>>, <<71995, 71996>>, <<71998, 71998>>, <<72003, 72003>>,
   <<72148, 72151>>, <<72154, 72155>>, <<72160, 72160>>, <<72193, 72202>>, <<72243, 72248>>, <<72251, 72254>>,
   <<72263, 72263>>, <<72273, 72278>>, <<72281, 72283>>, <<72330, 72342>>, <<72344, 72345>>, <<72752, 72758>>,
   <<72760, 72765>>, <<72767, 72767>>, <<72850, 72871>>, <<72874, 72880>>, <<72882, 72883>>, <<72885, 72886>>,
   <<73009, 73014>>, <<73018, 73018>>, <<73020, 73021>>, <<73023, 73029>>, <<73031, 73031>>, <<73104, 73105>>,
   <<73109, 73109>>, <<73111, 73111>>, <<73459, 73460>>, <<78896, 78904>>, <<92912, 92916>>, <<92976, 92982>>,
   <<92992, 92995>>, <<94031, 94031>>, <<94095, 94111>>, <<94176, 94177>>, <<94179, 94180>>, <<110576, 110579>>,
   <<110581, 110587>>, <<110589, 110590>>, <<113821, 113822>>, <<113824, 113827>>, <<118528, 118573>>, <<118576, 118598>>,
   <<119143, 119145>>, <<119155, 119170>>, <<119173, 119179>>, <<119210, 119213>>, <<119362, 119364>>, <<121344, 121398>>,
   <<121403, 121452>>, <<121461, 121461>>, <<121476, 121476>>, <<121499, 121503>>, <<121505, 121519>>, <<122880, 122886>>,
   <<122888, 122904>>, <<122907, 122913>>, <<122915, 122916>>, <<122918, 122922>>, <<123184, 123197>>, <<123566, 123566>>,
   <<123628, 123631>>, <<125136, 125142>>, <<125252, 125259>>, <<127995, 127999>>, <<917505, 917505>>, <<917536, 917631>>,
   <<917760, 917999>>}

isCased(c) == \E r \in CasedRuns : r[1] <= c /\ c <= r[2]
isCaseIgnorable(c) == \E r \in CaseIgnorableRuns : r[1] <= c /\ c <= r[2]

\* str.lower on one character other than capital sigma: one code point,
\* except for U+0130, which lowers to "i" and a combining dot above
lowerChar(c) ==
  IF c < 128 THEN <<IF c \in 65..90 THEN c + 32 ELSE c>>
  ELSE IF c = 304 THEN <<105, 775>>
  ELSE LET hit == {r \in LowerRuns :
                     r[1] <= c /\ c <= r[2] /\ (c - r[1]) % r[3] = 0}
       IN IF hit = {} THEN <<c>> ELSE <<c + (CHOOSE r \in hit : TRUE)[4]>>

\* characters str.splitlines breaks a line at ("\r\n" counts as one break)
LineBreaks == {10, 11, 12, 13, 28, 29, 30, 133, 8232, 8233}

\* characters str.strip removes: those for which str.isspace holds
Whitespace ==
  {9, 10, 11, 12, 13, 28, 29, 30, 31, 32, 133, 160, 5760}
    \cup (8192..8202) \cup {8232, 8233, 8239, 8287, 12288}

Least(S) == CHOOSE n \in S : \A m \in S : n <= m
Greatest(S) == CHOOSE n \in S : \A m \in S : m <= n

\* capital sigma at position i of s lowers to final sigma when a cased
\* character precedes it and none follows, case-ignorable ones skipped
finalSigma(s, i) ==
  LET before == {j \in 1..(i - 1) : ~isCaseIgnorable(s[j])}
      after == {j \in (i + 1)..Len(s) : ~isCaseIgnorable(s[j])}
  IN /\ before # {} /\ isCased(s[Greatest(before)])
     /\ after = {} \/ ~isCased(s[Least(after)])

\* l.lower()
RECURSIVE lowerFrom(_, _)
lowerFrom(s, n) ==
  IF n > Len(s) THEN <<>>
  ELSE (IF s[n] = 931 THEN <<IF finalSigma(s, n) THEN 962 ELSE 963>>
        ELSE lowerChar(s[n])) \o lowerFrom(s, n + 1)
lower(s) == lowerFrom(s, 1)

\* r.stdout.splitlines()
RECURSIVE splitlines(_)
splitlines(s) ==
  IF s = <<>> THEN <<>>
  ELSE LET brk == {n \in 1..Len(s) : s[n] \in LineBreaks}
       IN IF brk = {} THEN <<s>>
          ELSE LET j == Least(brk)
                   e == IF s[j] = 13 /\ j < Len(s) /\ s[j + 1] = 10
                        THEN j + 1 ELSE j
               IN <<SubSeq(s, 1, j - 1)>> \o splitlines(SubSeq(s, e + 1, Len(s)))

\* s.startswith(p)
startswith(s, p) == Len(s) >= Len(p) /\ SubSeq(s, 1, Len(p)) = p

\* l.split(sep, 1) for a one-character sep: at most one split, at the first sep
splitAtLast(l, sep) ==
  LET at == {n \in 1..Len(l) : l[n] = sep}
  IN IF at = {} THEN <<l>>
     ELSE <<SubSeq(l, 1, Greatest(at) - 1), SubSeq(l, Greatest(at) + 1, Len(l))>>
split(l, sep) ==
  LET at == {n \in 1..Len(l) : l[n] = sep}
  IN IF at = {} THEN <<l>>
     ELSE <<SubSeq(l, 1, Least(at) - 1), SubSeq(l, Least(at) + 1, Len(l))>>

\* s.strip()
strip(s) ==
  LET keep == {n \in 1..Len(s) : s[n] \notin Whitespace}
  IN IF keep = {} THEN <<>> ELSE SubSeq(s, Least(keep), Greatest(keep))

\* the literal "version:"
VersionPrefix == Text(<<"v","e","r","s","i","o","n",":">>)

\* the condition of the if in the for loop
caseSensitiveMatch(l) == startswith(l, VersionPrefix)
isVersionLine(l) == startswith(lower(l), VersionPrefix)

\* the for loop of v: the value returned from inside the loop, if any
RECURSIVE scanSkippingEmpty(_)
scanSkippingEmpty(lines) ==
  IF lines = <<>> THEN [found |-> FALSE, text |-> <<>>]
  ELSE IF isVersionLine(Head(lines)) /\ strip(split(Head(lines), ord(":"))[2]) # <<>>
       THEN [found |-> TRUE, text |-> strip(split(Head(lines), ord(":"))[2])]
       ELSE scanSkippingEmpty(Tail(lines))
RECURSIVE scan(_)
scan(lines) ==
  IF lines = <<>> THEN [found |-> FALSE, text |-> <<>>]
  ELSE IF isVersionLine(Head(lines))
       THEN [found |-> TRUE, text |-> strip(split(Head(lines), ord(":"))[2])]
       ELSE scan(Tail(lines))

\* the literal "not installed"
NotInstalled == PyStr(Text(<<"n","o","t"," ","i","n","s","t","a","l","l","e","d">>))

---------------------------------------------------------------------------
(* the environment: what pip show prints and what the import yields *)

\* lines pip show may print for a package
LinePlain == Text(<<"V","e","r","s","i","o","n",":"," ","2",".","1",".","0">>)
LineUpperColons == Text(<<"V","E","R","S","I","O","N",":","1",":","2">>)
\* nothing after the prefix but a space, a unit separator and a tab
LineBlank == Text(<<"v","e","r","s","i","o","n",":"," ">>) \o <<31, 9>>
LineIndented == Text(<<" ","V","e","r","s","i","o","n",":"," ","9">>)
\* U+0130 in place of the I: lowers to "i" and U+0307, so no prefix
LineDottedI ==
  Text(<<"V","E","R","S">>) \o <<304>> \o Text(<<"O","N",":"," ","4">>)
\* two lines parted by a vertical tab; a no-break space before the version
LineVerticalTab ==
  Text(<<"a">>) \o <<11>> \o Text(<<"V","e","r","S","i","o","n",":">>)
    \o <<160>> \o Text(<<"5"," ">>)

LinePool ==
  {LinePlain, LineUpperColons, LineBlank, LineIndented,
   LineDottedI, LineVerticalTab}

\* text mode hands every line over terminated by "\n"
RECURSIVE joinLines(_)
joinLines(ls) ==
  IF ls = <<>> THEN <<>> ELSE Head(ls) \o <<10>> \o joinLines(Tail(ls))

\* the values r.stdout can take (empty when pip finds no such package)
Stdouts ==
  {joinLines(ls) : ls \in UNION {[1..n -> LinePool] : n \in 0..MaxLines}}

\* what __import__(i).__version__ can do: raise, or yield the attribute
Raises(e) == [exc |-> e, value |-> PyNone]
Yields(val) == [exc |-> "none", value |-> val]

AttrValues ==
  {PyStr(Text(<<"0",".","9">>)), PyTuple(<<1, 2>>),
   PyObject(Text(<<"<","V",">">>))}

ImportOutcomes ==
  {Raises("ModuleNotFoundError"), Raises("AttributeError"), Raises("SystemExit")}
    \cup {Yields(val) : val \in AttrValues}

---------------------------------------------------------------------------
(* the program *)

\* the dict display of the module body: key, v(p, i) in source order
Packages ==
  <<[p |-> "rvc-python", i |-> "rvc"],
    [p |-> "edge-tts", i |-> "edge_tts"],
    [p |-> "torch", i |-> "torch"],
    [p |-> "torchaudio", i |-> "torchaudio"]>>

\* try: return __import__(i).__version__  except: return "not installed"
importResultGetattr(o) ==
  IF o.exc = "none" THEN o.value
  ELSE IF o.exc = "AttributeError" THEN PyNone ELSE NotInstalled
importResult(o) == IF o.exc = "none" THEN o.value ELSE NotInstalled

\* json encoding of one value; "TypeError" when the encoder has no rule for it
jsonType(val) ==
  CASE val.kind = "str" -> "string"
    [] val.kind = "int" -> "number"
    [] val.kind = "tuple" -> "array"
    [] val.kind = "None" -> "null"
    [] OTHER -> "TypeError"

\* json.dumps({...}, indent=2): the members in insertion order, or TypeError
dumps(keys, values) ==
  IF \E n \in 1..Len(values) : jsonType(values[n]) = "TypeError"
  THEN [ok |-> FALSE, members |-> <<>>]
  ELSE [ok |-> TRUE,
        members |-> [n \in 1..Len(values) |->
                       [key |-> keys[n], jtype |-> jsonType(values[n]),
                        chars |-> values[n].chars, items |-> values[n].items]]]

VARIABLES
  pc,        \* where the script is: "call", "run", "import", "dumps", "done"
  k,         \* index in Packages of the lookup being evaluated
  stdout,    \* r.stdout of the current lookup, kept until the next one starts
  imp,       \* <<>> or <<outcome of the import of the current lookup>>
  vals,      \* values of the dict display evaluated so far
  printed,   \* what was written to standard output
  exitCode,  \* <<>> while running, then <<0>> or <<1>>
  log        \* history of the external interactions

vars == <<pc, k, stdout, imp, vals, printed, exitCode, log>>

Event(ev, n, via) == [ev |-> ev, pkg |-> Packages[n].p, via |-> via]

Init ==
  /\ pc = "call"
  /\ k = 1
  /\ stdout = <<>>
  /\ imp = <<>>
  /\ vals = <<>>
  /\ printed = <<>>
  /\ exitCode = <<>>
  /\ log = <<>>

\* v returns val: the next value of the dict display, or json.dumps after the last
Return(val, before, via) ==
  /\ vals' = Append(vals, val)
  /\ k' = k + 1
  /\ pc' = IF k = Len(Packages) THEN "dumps" ELSE "call"
  /\ log' = log \o before \o <<Event("return", k, via)>>
  /\ UNCHANGED <<printed, exitCode>>

\* line 4: v(p, i) is entered and subprocess.run starts pip show
Call ==
  /\ pc = "call"
  /\ pc' = "run"
  /\ stdout' = <<>>
  /\ imp' = <<>>
  /\ log' = Append(log, Event("run", k, "-"))
  /\ UNCHANGED <<k, vals, printed, exitCode>>

\* lines 4-6: the subprocess ends, its output is scanned
RunReturns ==
  /\ pc = "run"
  /\ \E out \in Stdouts :
       /\ stdout' = out
       /\ LET r == scan(splitlines(out))
          IN IF r.found
             THEN /\ Return(PyStr(r.text), <<Event("exit", k, "-")>>, "query")
                  /\ UNCHANGED imp
             ELSE /\ pc' = "import"
                  /\ log' = Append(log, Event("exit", k, "-"))
                  /\ UNCHANGED <<k, imp, vals, printed, exitCode>>

\* line 4: subprocess.run raises; v has no handler around it
RunRaisesCaught ==
  /\ pc = "run"
  /\ Return(NotInstalled, <<Event("raise", k, "-")>>, "except")
  /\ UNCHANGED <<stdout, imp>>
RunRaises ==
  /\ pc = "run"
  /\ pc' = "done"
  /\ exitCode' = <<1>>
  /\ log' = Append(log, Event("raise", k, "-"))
  /\ UNCHANGED <<k, stdout, imp, vals, printed>>

\* lines 7-9: the import fallback and the bare except
Import ==
  /\ pc = "import"
  /\ \E o \in ImportOutcomes :
       /\ imp' = <<o>>
       /\ Return(importResult(o), <<Event("import", k, "-")>>,
                 IF o.exc = "none" THEN "import" ELSE "except")
  /\ UNCHANGED stdout

\* line 10: json.dumps and print
Emit ==
  /\ pc = "dumps"
  /\ pc' = "done"
  /\ LET d == dumps([n \in 1..Len(Packages) |-> Packages[n].p], vals)
     IN IF d.ok
        THEN /\ printed' = Append(printed, d.members)
             /\ exitCode' = <<0>>
             /\ log' = Append(log, [ev |-> "print", pkg |-> "-", via |-> "-"])
        ELSE /\ printed' = printed
             /\ exitCode' = <<1>>
             /\ log' = Append(log, [ev |-> "TypeError", pkg |-> "-", via |-> "-"])
  /\ UNCHANGED <<k, stdout, imp, vals>>

Next == Call \/ RunReturns \/ RunRaises \/ Import \/ Emit

Spec == Init /\ [][Next]_vars

---------------------------------------------------------------------------
(* vocabulary of the properties, stated on the raw text and on the history *)

\* literals of the properties
LowerPrefix == Text(<<"v","e","r","s","i","o","n",":">>)
UpperPrefix == Text(<<"V","E","R","S","I","O","N",":">>)
SentinelText == Text(<<"n","o","t"," ","i","n","s","t","a","l","l","e","d">>)
TorchExampleOutput ==
  Text(<<"V","e","r","s","i","o","n",":"," ","2",".","1",".","0">>) \o <<10>>
TorchExampleVersion == Text(<<"2",".","1",".","0">>)
OneColonTwo == Text(<<"1",":","2">>)

Last(q) == q[Len(q)]

\* the current lookup has just returned; stdout and imp are that lookup's
JustReturned == log # <<>> /\ Last(log).ev = "return"

\* position a of text s begins a line
Boundary(c) == c \in {10, 11, 12, 13, 28, 29, 30, 133, 8232, 8233}
BeginsLine(s, a) == a = 1 \/ Boundary(s[a - 1])

\* a line beginning at position a of s starts with "version:" in any case
PrefixAt(s, a) ==
  /\ a + 7 <= Len(s)
  /\ BeginsLine(s, a)
  /\ \A n \in 1..8 :
       s[a + n - 1] \in {LowerPrefix[n], UpperPrefix[n]}

PrefixPositions(s) == {a \in 1..Len(s) : PrefixAt(s, a)}
HasVersionLine(s) == PrefixPositions(s) # {}

\* the text between the first prefix and the end of its line
AfterFirstPrefix(s) ==
  LET a == CHOOSE x \in PrefixPositions(s) : \A y \in PrefixPositions(s) : x <= y
      ends == {e \in (a + 8)..(Len(s) + 1) :
                 /\ e = Len(s) + 1 \/ Boundary(s[e])
                 /\ \A m \in (a + 8)..(e - 1) : ~Boundary(s[m])}
  IN SubSeq(s, a + 8, (CHOOSE e \in ends : TRUE) - 1)

\* c is white space: a separator of the Unicode category Zs, or of the
\* bidirectional classes WS, B and S
Blank(c) ==
  \/ c \in 9..13 \/ c \in 28..32 \/ c \in {133, 160, 5760}
  \/ c \in 8192..8202 \/ c \in {8232, 8233, 8239, 8287, 12288}

\* t is r without its leading and trailing whitespace
IsTrimOf(t, r) ==
  /\ t # <<>> => ~Blank(t[1]) /\ ~Blank(t[Len(t)])
  /\ \E lead \in 0..Len(r) :
       /\ lead + Len(t) <= Len(r)
       /\ SubSeq(r, lead + 1, lead + Len(t)) = t
       /\ \A n \in 1..Len(r) : (n <= lead \/ n > lead + Len(t)) => Blank(r[n])

\* the packages in the order the script is to look them up
FixedOrder == <<"rvc-python", "edge-tts", "torch", "torchaudio">>

\* the events of one kind, in order
RECURSIVE Only(_, _)
Only(q, ev) ==
  IF q = <<>> THEN <<>>
  ELSE IF Head(q).ev = ev THEN <<Head(q).pkg>> \o Only(Tail(q), ev)
       ELSE Only(Tail(q), ev)

IsPrefixOf(a, b) == Len(a) <= Len(b) /\ SubSeq(b, 1, Len(a)) = a

\* str(x) of a Python value
RECURSIVE decimal(_)
decimal(n) ==
  IF n < 10 THEN <<ord("0") + n>>
  ELSE decimal(n \div 10) \o <<ord("0") + (n % 10)>>
RECURSIVE commaJoined(_)
commaJoined(ns) ==
  IF ns = <<>> THEN <<>>
  ELSE IF Len(ns) = 1 THEN decimal(ns[1])
       ELSE decimal(ns[1]) \o Text(<<",", " ">>) \o commaJoined(Tail(ns))
strForm(val) ==
  CASE val.kind = "str" -> val.chars
    [] val.kind = "tuple" ->
         Text(<<"(">>) \o commaJoined(val.items)
           \o (IF Len(val.items) = 1 THEN Text(<<",">>) ELSE <<>>) \o Text(<<")">>)
    [] val.kind = "None" -> Text(<<"N","o","n","e">>)
    [] OTHER -> val.chars

---------------------------------------------------------------------------
(* properties *)

\* C1: when the query output has a line beginning with "version:" (any case),
\* the lookup returns the text after the first such prefix of the output,
\* cut at that line's first colon and trimmed; "Version: 2.1.0" gives "2.1.0".
C1_FirstVersionLine ==
  JustReturned /\ HasVersionLine(stdout) =>
    /\ Last(vals).kind = "str"
    /\ IsTrimOf(Last(vals).chars, AfterFirstPrefix(stdout))
    /\ stdout = TorchExampleOutput => Last(vals).chars = TorchExampleVersion

\* C1 witness: two version lines, the first with a second colon, resolved "1:2"
C1_Witness ==
  /\ JustReturned
  /\ Cardinality(PrefixPositions(stdout)) = 2
  /\ Last(vals).chars = OneColonTwo

\* C2: with no version line and an importable module with a version
\* attribute, the lookup returns the string form of the attribute.
C2_StringForm ==
  JustReturned /\ ~HasVersionLine(stdout) /\ imp # <<>> /\ imp[1].exc = "none" =>
    Last(vals) = [kind |-> "str", chars |-> strForm(imp[1].value), items |-> <<>>]

\* C3: with no version line and an import or attribute read that raises,
\* the lookup returns exactly "not installed".
C3_Sentinel ==
  JustReturned /\ ~HasVersionLine(stdout) /\ imp # <<>> /\ imp[1].exc # "none" =>
    /\ Last(vals).kind = "str"
    /\ Last(vals).chars = SentinelText

\* C3 witness: rvc-python, empty query output, the version attribute missing
C3_Witness ==
  /\ JustReturned
  /\ Last(log).pkg = "rvc-python"
  /\ stdout = <<>>
  /\ imp = <<[exc |-> "AttributeError", value |-> PyNone]>>
  /\ Last(vals).chars = SentinelText

\* C4: once all four lookups have returned, the script ends having printed
\* one mapping whose keys are exactly the four package names.
C4_FourKeysPrinted ==
  pc = "done" /\ Len(vals) = 4 =>
    /\ Len(printed) = 1
    /\ Len(printed[1]) = 4
    /\ {printed[1][n].key : n \in 1..4} =
         {"rvc-python", "edge-tts", "torch", "torchaudio"}

\* C5: every run ends in successful termination.
C5_ExitsZero == pc = "done" => exitCode = <<0>>

\* C6: every value of the mapping, and so every member that is printed, is
\* a string, by whichever path the value was resolved.
C6_ValuesAreStrings ==
  /\ \A n \in 1..Len(vals) : vals[n].kind = "str"
  /\ \A m \in 1..Len(printed) : \A n \in 1..Len(printed[m]) :
       printed[m][n].jtype = "string"

\* C7: a raising subprocess.run is the last thing the script does: no
\* value, sentinel or other, is produced for that lookup, no later lookup
\* starts, nothing is printed and the exit is a failure.
C7_RunFailurePropagates ==
  \A n \in 1..Len(log) :
    log[n].ev = "raise" =>
      /\ n = Len(log)
      /\ pc = "done"
      /\ exitCode = <<1>>
      /\ printed = <<>>
      /\ Len(Only(log, "return")) = Len(Only(log, "run")) - 1
      /\ log[n - 1].ev = "run" /\ log[n - 1].pkg = log[n].pkg

\* C7 witness: the query for torch raises after two lookups have returned
C7_Witness ==
  /\ log # <<>>
  /\ Last(log).ev = "raise"
  /\ Last(log).pkg = "torch"
  /\ Len(vals) = 2
  /\ pc = "done"

\* the part of C8 about order and exclusion: the queries start in the fixed
\* order, each only after the lookup before it has returned, at most one
\* subprocess is live, and nothing is printed before the four lookups
\* have returned
C8_InOrderOneAtATime ==
  /\ IsPrefixOf(Only(log, "run"), FixedOrder)
  /\ IsPrefixOf(Only(log, "return"), FixedOrder)
  /\ \A n \in 1..Len(log) :
       /\ log[n].ev = "run" =>
            /\ n > 1 => log[n - 1].ev = "return"
            /\ n < Len(log) =>
                 log[n + 1].ev \in {"exit", "raise"} /\ log[n + 1].pkg = log[n].pkg
       /\ log[n].ev \in {"exit", "raise"} =>
            log[n - 1].ev = "run" /\ log[n - 1].pkg = log[n].pkg
       /\ log[n].ev = "return" =>
            Only(SubSeq(log, 1, n), "return") = Only(SubSeq(log, 1, n), "exit")
       /\ log[n].ev = "print" =>
            /\ n = Len(log)
            /\ Only(log, "run") = FixedOrder
            /\ Only(log, "exit") = FixedOrder
            /\ Only(log, "return") = FixedOrder
  /\ (pc = "run") = (log # <<>> /\ Last(log).ev = "run")
  /\ Len(printed) <= 1
  /\ printed # <<>> => Last(log).ev = "print"

\* C8: the four lookups run one after another in the fixed order, and every
\* run ends with each of the four packages queried exactly once and the
\* mapping printed exactly once, after all four lookups have returned.
C8_ExactlyOnceInOrder ==
  /\ C8_InOrderOneAtATime
  /\ pc = "done" =>
       /\ Only(log, "run") = FixedOrder
       /\ Only(log, "exit") = FixedOrder
       /\ Only(log, "return") = FixedOrder
       /\ Len(printed) = 1

\* C9: in a lookup the import is attempted exactly when the finished query
\* printed no version line, never before the query ended, and the sentinel
\* is returned only after an import attempt that raised.
C9_FallbackChain ==
  /\ imp # <<>> => ~HasVersionLine(stdout)
  /\ pc = "import" => ~HasVersionLine(stdout) /\ Last(log).ev = "exit"
  /\ JustReturned =>
       /\ HasVersionLine(stdout) <=> imp = <<>>
       /\ HasVersionLine(stdout) <=> Last(log).via = "query"
       /\ Last(log).via = "except" <=> (imp # <<>> /\ imp[1].exc # "none")
  /\ \A n \in 1..Len(log) :
       /\ log[n].ev = "import" =>
            log[n - 1].ev = "exit" /\ log[n - 1].pkg = log[n].pkg
       /\ log[n].ev = "exit" =>
            log[n - 1].ev = "run" /\ log[n - 1].pkg = log[n].pkg
       /\ log[n].ev = "return" =>
            /\ log[n - 1].ev \in {"exit", "import"}
            /\ log[n - 1].ev = "exit" <=> log[n].via = "query"

\* C9 witness: a lookup went through the query and the import to the sentinel
C9_Witness ==
  /\ JustReturned
  /\ Last(log).via = "except"
  /\ stdout # <<>>
  /\ ~HasVersionLine(stdout)
  /\ imp # <<>>

\* C10: a first version line with nothing but whitespace after the prefix
\* resolves to the empty string, by the query, without any import attempt.
C10_EmptyVersion ==
  JustReturned /\ HasVersionLine(stdout)
    /\ (\A n \in 1..Len(AfterFirstPrefix(stdout)) : Blank(AfterFirstPrefix(stdout)[n])) =>
      /\ Last(vals) = [kind |-> "str", chars |-> <<>>, items |-> <<>>]
      /\ imp = <<>>
      /\ Last(log).via = "query"

\* C10 witness: a blank version line followed by a line with a version
C10_Witness ==
  /\ JustReturned
  /\ Cardinality(PrefixPositions(stdout)) = 2
  /\ AfterFirstPrefix(stdout) = <<32, 31, 9>>
  /\ Last(vals).chars = <<>>

====
